---- MODULE Spec2Model ----
(***************************************************************************)
(* Model of the order-placement pipeline of src/order-automation.js        *)
(* (placeOrder and the helpers it awaits).  One behaviour is one call of   *)
(* placeOrder.  Every browser primitive (launch, navigation, evaluate,     *)
(* click, type, wait, screenshot, content, close) resolves or rejects      *)
(* nondeterministically; a step of the model is the code between two       *)
(* awaits.                                                                 *)
(*                                                                         *)
(* Strings produced by the code (error messages, extracted fields) are     *)
(* modelled as the sequence of their parts; Null, the empty sequence,      *)
(* models JavaScript null.                                                 *)
(***************************************************************************)
EXTENDS Integers, Sequences, FiniteSets, TLC

\* ---------------------------------------------------------------- bounds
MaxItems == 2
MaxQty == 3
MaxMods == 1

\* ------------------------------------------------------------- constants
Null == <<>>

CONFIG ==
    [ botLastName       |-> <<"PAM">>,
      screenshotOnError |-> TRUE ]

HtmlLimit == 5000

NumSelectors == 5

\* The canonical names parseOrderItems maps to; the item at position k of an
\* order is given the k-th of them, so the items of one order have distinct
\* names.
ItemNames ==
    << "Bruschetta", "Angus Burger", "Quesadilla", "Caesar Salad",
       "Garlic Bread W/cheese", "1lb Wings", "2lb Wings" >>

\* The items parseOrderItems can hand to the cart loop: a name, a quantity
\* (1 by default, else the parsed leading number, which may be 0) and a list
\* of modifications (only its length matters to the loop).
ParsedItems(k) ==
    { [ name |-> ItemNames[k], quantity |-> n, modifications |-> c ] :
        n \in 0..MaxQty, c \in 0..MaxMods }

\* An order has at least one item: split(',') never returns an empty array.
\* The order is an input, and nothing reads the quantity and the
\* modifications of an item before its turn in the cart loop: they are
\* drawn from ParsedItems(k) when the loop opens the modal of item k, and
\* hold the defaults of the parser until then.
ItemLists ==
    { [ k \in 1..n |->
          [ name |-> ItemNames[k], quantity |-> 1, modifications |-> 0 ] ] :
      n \in 1..MaxItems }

\* special_instructions as a sequence of characters: empty, blank, text.
Instructions == { <<>>, <<" ">>, <<"n">> }

FieldNames == <<"First name", "Last name", "Email", "Phone">>

\* ----------------------------------------------------------------- state
VARIABLES
    pc,             \* position of placeOrder between two awaits
    browser,        \* the variable `browser`: "undefined", "open", "closed"
    orderResult,    \* the OrderResult under construction
    items,          \* the parsed items of addItemsToCart
    special,        \* orderData.special_instructions
    i,              \* cart loop index (1-based)
    m,              \* index of the modification being applied
    q,              \* loop index of the quantity increment loop
    f,              \* guest field being filled (1..4)
    strat,          \* outcome of each strategy of the findAndClickItem call
                    \* in progress or just left
    orderPlaced,    \* the 'Place Order' control has been clicked
    markerObserved, \* the confirmation marker has been seen
    log,            \* history: the operations attempted, in order
    mustFail,       \* history: the must-succeed step that failed, or "none"
    failedItem,     \* history: index of the item whose addition failed, or 0
    numItems,       \* history: the number of items parseOrderItems returned
    abortLen,       \* history: Len(log) when the pipeline aborted, or -1
    errShot,        \* history: outcome of the error-state capture
    extractFailed,  \* history: extraction ran and raised internally
    swallowed,      \* the failure the last step swallowed, or "none"
    orderItemsString, \* parseOrderItems: its argument
    parsed,         \* parseOrderItems: its return value
    config,         \* two runs: the module-level CONFIG object
    run,            \* two runs: each invocation's position
    browserVar,     \* two runs: the `browser` variables, by slot
    resultVar,      \* two runs: the `orderResult` variables, by slot
    sessions,       \* two runs: the browser sessions launched so far
    req,            \* HTTP wrapper: the body of the request
    srv             \* HTTP wrapper: the handler's position and effects

vars == << pc, browser, orderResult, items, special, i, m, q, f, strat,
           orderPlaced, markerObserved, log, mustFail, failedItem, numItems,
           abortLen, errShot, extractFailed, swallowed, orderItemsString,
           parsed, config, run, browserVar, resultVar, sessions, req, srv >>

\* The state of one invocation of placeOrder followed step by step.
pipeline == << pc, browser, orderResult, items, special, i, m, q, f, strat,
               orderPlaced, markerObserved, log, mustFail, failedItem,
               numItems, abortLen, errShot, extractFailed, swallowed >>

\* The state of two interleaved invocations of placeOrder.
conc == << config, run, browserVar, resultVar, sessions >>

\* The state of the handler of POST /place-order.
http == << req, srv >>

\* A field of a request body: absent (undefined), null, or a string.
Absent == [ kind |-> "undefined", text |-> << >> ]

\* No request has been received yet.
HttpIdle ==
    /\ req = [ order_items |-> Absent, customer_name |-> Absent,
               customer_phone |-> Absent, pickup_time |-> Absent,
               special_instructions |-> Absent ]
    /\ srv = [ pc |-> "idle", orderData |-> << >>, invoked |-> 0,
               responses |-> << >> ]

\* The state of a call of parseOrderItems on its own, of the two
\* interleaved invocations and of the HTTP handler.
aux == << orderItemsString, parsed, conc, http >>

\* The two invocations.
Runs == { 1, 2 }

\* Nothing has been invoked yet.
ConcIdle ==
    /\ config = CONFIG
    /\ run = [ r \in Runs |-> [ pc |-> "idle", stage |-> 0 ] ]
    /\ browserVar = [ r \in Runs |-> 0 ]
    /\ resultVar = [ r \in Runs |-> << >> ]
    /\ sessions = << >>

NoStrat == [ j \in 1..3 |-> "untried" ]

InitResult ==
    [ success             |-> FALSE,
      confirmationNumber  |-> Null,
      estimatedPickupTime |-> Null,
      totalAmount         |-> Null,
      error               |-> Null,
      screenshots         |-> <<>>,
      errorPageHTML       |-> -1 ]

Init ==
    /\ pc = "launch"
    /\ browser = "undefined"
    /\ orderResult = InitResult
    /\ items \in ItemLists
    /\ special \in Instructions
    /\ i = 1
    /\ m = 1
    /\ q = 1
    /\ f = 1
    /\ strat = NoStrat
    /\ orderPlaced = FALSE
    /\ markerObserved = FALSE
    /\ log = <<>>
    /\ mustFail = "none"
    /\ failedItem = 0
    /\ numItems = Len(items)
    /\ abortLen = -1
    /\ errShot = "none"
    /\ extractFailed = FALSE
    /\ swallowed = "none"
    /\ orderItemsString = <<>>
    /\ parsed = <<>>
    /\ ConcIdle
    /\ HttpIdle


\* --------------------------------------------------------------- helpers
\* The message of a rejection raised by a browser primitive.
Fault(primitive) == << "fault", primitive >>

\* String.prototype.trim on a sequence of characters.
RECURSIVE TrimLeft(_)
TrimLeft(s) ==
    IF s # <<>> /\ Head(s) = " " THEN TrimLeft(Tail(s)) ELSE s

RECURSIVE TrimRight(_)
TrimRight(s) ==
    IF s # <<>> /\ s[Len(s)] = " "
    THEN TrimRight(SubSeq(s, 1, Len(s) - 1))
    ELSE s

Trim(s) == TrimRight(TrimLeft(s))

\* The guard of step 7: special_instructions && special_instructions.trim() !== ''
HasInstructions(s) == s # <<>> /\ Trim(s) # <<>>

\* takeScreenshot: when enabled and the capture succeeds, a record named
\* `name` is pushed; a failed capture is logged and the result is unchanged.
takeScreenshot_drop(result, name, ok) == result

takeScreenshot_replace(result, name, ok) ==
    [result EXCEPT !.screenshots = << name >>]

takeScreenshot(result, name, ok) ==
    IF ~CONFIG.screenshotOnError THEN result
    ELSE IF ok THEN [result EXCEPT !.screenshots = Append(@, name)]
    ELSE result

\* The catch block of placeOrder up to its first await.
CatchError_keep(result, msg) == result

CatchError(result, msg) == [result EXCEPT !.error = msg]

CatchNext_skip(b) == "finally"

CatchNext(b) ==
    IF b # "undefined" /\ CONFIG.screenshotOnError THEN "errPages" ELSE "finally"

\* An exception reaches the catch block of placeOrder.
Throw(msg) ==
    /\ orderResult' = CatchError(orderResult, msg)
    /\ pc' = CatchNext(browser)
    /\ abortLen' = Len(log')

\* The awaited call resolved; the pipeline goes on.
Proceed(next) ==
    /\ pc' = next
    /\ UNCHANGED << orderResult, abortLen >>

\* An awaited primitive that either resolves or rejects into the catch block.
Simple(at, tag, next) ==
    /\ pc = at
    /\ log' = Append(log, << tag, 0 >>)
    /\ \E ok \in BOOLEAN :
         IF ok
         THEN Proceed(next) /\ items' = items
         ELSE Throw(Fault(tag)) /\ items' = << >>
    /\ UNCHANGED << browser, special, numItems, i, m, q, f, strat, orderPlaced,
                    markerObserved, mustFail, failedItem, errShot,
                    extractFailed >>
    /\ UNCHANGED aux
    /\ swallowed' = "none"

\* ------------------------------------------------- placeOrder, steps 0-1
Launch ==
    /\ pc = "launch"
    /\ log' = Append(log, << "launch", 0 >>)
    /\ \E ok \in BOOLEAN :
         IF ok
         THEN browser' = "open" /\ Proceed("newPage") /\ items' = items
         ELSE browser' = browser /\ Throw(Fault("launch")) /\ items' = << >>
    /\ UNCHANGED << special, numItems, i, m, q, f, strat, orderPlaced,
                    markerObserved, mustFail, failedItem, errShot,
                    extractFailed >>
    /\ UNCHANGED aux
    /\ swallowed' = "none"

NewPage == Simple("newPage", "newPage", "setupPage")

SetupPage == Simple("setupPage", "setupPage", "goto")

Goto == Simple("goto", "goto", "wait01")

MenuSettle == Simple("wait01", "waitForTimeout", "shot01")

\* ----------------------------------------------------- stage snapshots
\* Where the pipeline goes after the snapshot of step 6.
AfterGuestSubmit_always(s) == "addPickupNotes"

AfterGuestSubmit(s) ==
    IF HasInstructions(s) THEN "addPickupNotes" ELSE "verifyPayment"

ShotTable ==
    << [ at |-> "shot01", name |-> "01-homepage",          next |-> "find1" ],
       [ at |-> "shot02", name |-> "02-cart-filled",       next |-> "clickCheckout" ],
       [ at |-> "shot03", name |-> "03-checkout-modal",    next |-> "continueAsGuest" ],
       [ at |-> "shot04", name |-> "04-guest-form",        next |-> "fillGuestInfo" ],
       [ at |-> "shot05", name |-> "05-guest-info-filled", next |-> "submitGuestForm" ],
       [ at |-> "shot06", name |-> "06-final-checkout",    next |-> AfterGuestSubmit(special) ],
       [ at |-> "shot07", name |-> "07-before-submit",     next |-> "placeOrderClick" ],
       [ at |-> "shot08", name |-> "08-confirmation",      next |-> "extract" ] >>

StageScreenshot ==
    \E s \in DOMAIN ShotTable :
        /\ pc = ShotTable[s].at
        /\ \E ok \in BOOLEAN :
             /\ orderResult' =
                    takeScreenshot(orderResult, ShotTable[s].name, ok)
             /\ swallowed' = IF ok THEN "none" ELSE "screenshot"
        /\ pc' = ShotTable[s].next
        /\ UNCHANGED aux
        /\ UNCHANGED << browser, items, special, numItems, i, m, q, f, strat,
                        orderPlaced, markerObserved, log, mustFail,
                        failedItem, abortLen, errShot, extractFailed >>

\* ------------------------------------------------ addItemsToCart (step 2)
\* The message of the error rethrown by the cart loop for `item`.
AddError(item, cause) == << "Failed to add", item.name, "to cart" >> \o cause

\* The message of findAndClickItem when every strategy is exhausted.
NotFoundError(item) == << "Could not find menu item", item.name >>

\* After the last statement of the loop body: the next item, or the return
\* of addItemsToCart.
LoopNext(k) == IF k <= Len(items) THEN "find1" ELSE "shot02"

\* The catch of the cart loop: the failure of item i is rethrown and leaves
\* addItemsToCart, whose locals (and those of handleItemModal) are gone.
ItemThrow_continue(cause) ==
    /\ failedItem' = i
    /\ i' = i + 1
    /\ pc' = LoopNext(i + 1)
    /\ m' = 1
    /\ q' = 1
    /\ UNCHANGED << orderResult, abortLen, items >>

ItemThrow(cause) ==
    /\ Throw(AddError(items[i], cause))
    /\ failedItem' = i
    /\ i' = i
    /\ items' = <<>>
    /\ m' = 1
    /\ q' = 1

\* The awaited call of the loop body resolved.
ItemProceed(next) ==
    /\ Proceed(next)
    /\ UNCHANGED << failedItem, i, items, m, q >>

\* findAndClickItem: where strategy j (1 or 2) leads, given its outcome.
\*   "clicked"   an element matched and was clicked
\*   "nomatch"   no element matched, or the query raised
\*   "clickfail" an element matched, the click raised
FindNext_fallThrough(j, o) == IF j = 1 THEN "find2" ELSE "find3"

FindNext(j, o) ==
    IF o = "clicked" THEN "modalWait"
    ELSE IF j = 1 THEN "find2" ELSE "find3"

StrategyOutcomes == { "clicked", "nomatch", "clickfail" }

FindStrategy1 ==
    /\ pc = "find1"
    /\ log' = Append(log, << "find", i >>)
    /\ \E o \in StrategyOutcomes :
         /\ strat' = [NoStrat EXCEPT ![1] = o]
         /\ pc' = FindNext(1, o)
    /\ UNCHANGED << browser, orderResult, items, special, numItems, i, m, q,
                    f, orderPlaced, markerObserved, mustFail, failedItem,
                    abortLen, errShot, extractFailed >>
    /\ UNCHANGED aux
    /\ swallowed' = "none"

FindStrategy2 ==
    /\ pc = "find2"
    /\ \E o \in StrategyOutcomes :
         /\ strat' = [strat EXCEPT ![2] = o]
         /\ pc' = FindNext(2, o)
    /\ UNCHANGED << browser, orderResult, items, special, numItems, i, m, q,
                    f, orderPlaced, markerObserved, log, mustFail,
                    failedItem, abortLen, errShot, extractFailed >>
    /\ UNCHANGED aux
    /\ swallowed' = "none"

FindStrategy3 ==
    /\ pc = "find3"
    /\ log' = log
    /\ \E o \in StrategyOutcomes :
         /\ strat' = [strat EXCEPT ![3] = o]
         /\ IF o = "clicked"
            THEN /\ ItemProceed("modalWait")
                 /\ UNCHANGED mustFail
            ELSE /\ ItemThrow(NotFoundError(items[i]))
                 /\ mustFail' = "itemDiscovery"
    /\ UNCHANGED << browser, special, numItems, f, orderPlaced,
                    markerObserved, errShot, extractFailed >>
    /\ UNCHANGED aux
    /\ swallowed' = "none"

\* page.waitForTimeout(2000) before the modal is handled.  findAndClickItem
\* has returned: the record of its strategies is cleared.  handleItemModal
\* is the first reader of the item's quantity and modifications: they are
\* drawn here.
ModalWait ==
    /\ pc = "modalWait"
    /\ log' = log
    /\ \E ok \in BOOLEAN :
         IF ok
         THEN /\ Proceed("modalCheck")
              /\ \E item \in ParsedItems(i) :
                   items' = [items EXCEPT ![i] = item]
              /\ UNCHANGED << failedItem, i, m, q >>
         ELSE ItemThrow(Fault("waitForTimeout"))
    /\ strat' = NoStrat
    /\ UNCHANGED << browser, special, numItems, f, orderPlaced,
                    markerObserved, mustFail, errShot, extractFailed >>
    /\ UNCHANGED aux
    /\ swallowed' = "none"

\* handleItemModal: what follows the required-selection block, and what
\* follows the modification loop.
AfterMods(item) == IF item.quantity > 1 THEN "increment" ELSE "addToCart"

AfterDefault(item) ==
    IF item.modifications > 0 THEN "applyMod" ELSE AfterMods(item)

\* The first evaluate of handleItemModal is outside any try block.
ModalCheck ==
    /\ pc = "modalCheck"
    /\ log' = Append(log, << "modal", i >>)
    /\ \E o \in { "required", "none", "fault" } :
         CASE o = "required" -> ItemProceed("modalDefault")
           [] o = "none"     -> ItemProceed(AfterDefault(items[i]))
           [] o = "fault"    -> ItemThrow(Fault("evaluate"))
    /\ UNCHANGED << browser, special, numItems, f, strat, orderPlaced,
                    markerObserved, mustFail, errShot, extractFailed >>
    /\ UNCHANGED aux
    /\ swallowed' = "none"

\* Selecting the default option: every outcome is swallowed.
ModalDefault ==
    /\ pc = "modalDefault"
    /\ \E o \in { "ok", "nomatch", "fault" } :
         /\ pc' = AfterDefault(items[i])
         /\ swallowed' = IF o = "fault" THEN "default" ELSE "none"
    /\ UNCHANGED << browser, orderResult, items, special, numItems, i, m, q,
                    f, strat, orderPlaced, markerObserved, log, mustFail,
                    failedItem, abortLen, errShot, extractFailed >>
    /\ UNCHANGED aux

\* One iteration of the modification loop: every outcome is swallowed.
ApplyModification ==
    /\ pc = "applyMod"
    /\ m <= items[i].modifications
    /\ \E ok \in BOOLEAN :
         /\ swallowed' = IF ok THEN "none" ELSE "modification"
         /\ m' = m + 1
         /\ pc' = IF m + 1 <= items[i].modifications
                  THEN "applyMod"
                  ELSE AfterMods(items[i])
    /\ UNCHANGED << browser, orderResult, items, special, numItems, i, q, f,
                    strat, orderPlaced, markerObserved, log, mustFail,
                    failedItem, abortLen, errShot, extractFailed >>
    /\ UNCHANGED aux

\* Where the quantity loop goes after iteration k: on to the next iteration
\* while k + 1 < quantity, out of the loop after the last one or on `break`.
IncrementNext_unbounded(item, k, ok) == "increment"

IncrementNext_noBreak(item, k, ok) ==
    IF k + 1 < item.quantity THEN "increment" ELSE "addToCart"

IncrementNext(item, k, ok) ==
    IF ok /\ k + 1 < item.quantity THEN "increment" ELSE "addToCart"

\* One iteration of the quantity loop (for q = 1 .. quantity - 1): a failed
\* increment breaks out of the loop.
IncrementQuantity ==
    /\ pc = "increment"
    /\ q < items[i].quantity
    /\ \E ok \in BOOLEAN :
         /\ q' = IF ok THEN q + 1 ELSE q
         /\ pc' = IncrementNext(items[i], q, ok)
         /\ swallowed' = IF ok THEN "none" ELSE "increment"
    /\ UNCHANGED << browser, orderResult, items, special, numItems, i, m, f,
                    strat, orderPlaced, markerObserved, log, mustFail,
                    failedItem, abortLen, errShot, extractFailed >>
    /\ UNCHANGED aux

\* clickAddToCart: outcome 0 is the text match, 1..NumSelectors the first
\* fallback selector whose click resolved, NumSelectors + 1 none of them.
ClickAddToCart ==
    /\ pc = "addToCart"
    /\ log' = Append(log, << "add", i >>)
    /\ \E o \in 0..(NumSelectors + 1) :
         IF o <= NumSelectors
         THEN /\ ItemProceed("itemSettle")
              /\ UNCHANGED mustFail
         ELSE /\ ItemThrow(<< "Could not find Add to Cart button" >>)
              /\ mustFail' = "addToCart"
    /\ UNCHANGED << browser, special, numItems, f, strat, orderPlaced,
                    markerObserved, errShot, extractFailed >>
    /\ UNCHANGED aux
    /\ swallowed' = "none"

\* page.waitForTimeout(1500), then the loop increment and test.  When the
\* loop ends addItemsToCart returns and its local `items` is gone.
ItemSettle ==
    /\ pc = "itemSettle"
    /\ log' = log
    /\ \E ok \in BOOLEAN :
         IF ok
         THEN /\ Proceed(LoopNext(i + 1))
              /\ i' = i + 1
              /\ items' = IF i + 1 <= Len(items) THEN items ELSE <<>>
              /\ m' = 1
              /\ q' = 1
              /\ UNCHANGED failedItem
         ELSE ItemThrow(Fault("waitForTimeout"))
    /\ UNCHANGED << browser, special, numItems, f, strat, orderPlaced,
                    markerObserved, mustFail, errShot, extractFailed >>
    /\ UNCHANGED aux
    /\ swallowed' = "none"

\* ------------------------------------------------- checkout (steps 3-8)
\* clickCheckout: the first wait is outside the try block, the click and the
\* settle delay inside it.
ClickCheckout ==
    /\ pc = "clickCheckout"
    /\ \E o \in { "ok", "prewait", "notfound", "fault" } :
         /\ log' = IF o = "prewait" THEN log ELSE Append(log, << "checkout", 0 >>)
         /\ CASE o = "ok" ->
                   Proceed("shot03") /\ UNCHANGED mustFail
              [] o = "prewait" ->
                   Throw(Fault("waitForTimeout")) /\ UNCHANGED mustFail
              [] o = "notfound" ->
                   /\ Throw(<< "Failed to click checkout",
                               "Checkout button not found" >>)
                   /\ mustFail' = "checkout"
              [] o = "fault" ->
                   /\ Throw(<< "Failed to click checkout" >> \o Fault("evaluate"))
                   /\ mustFail' = "checkout"
    /\ UNCHANGED << browser, items, special, numItems, i, m, q, f, strat, orderPlaced,
                    markerObserved, failedItem, errShot, extractFailed >>
    /\ UNCHANGED aux
    /\ swallowed' = "none"

ContinueAsGuest ==
    /\ pc = "continueAsGuest"
    /\ \E o \in { "ok", "prewait", "notfound", "fault" } :
         /\ log' = IF o = "prewait" THEN log ELSE Append(log, << "guest", 0 >>)
         /\ CASE o = "ok" ->
                   Proceed("shot04") /\ UNCHANGED mustFail
              [] o = "prewait" ->
                   Throw(Fault("waitForTimeout")) /\ UNCHANGED mustFail
              [] o = "notfound" ->
                   /\ Throw(<< "Failed to continue as guest",
                               "Continue as Guest button not found" >>)
                   /\ mustFail' = "continueAsGuest"
              [] o = "fault" ->
                   /\ Throw(<< "Failed to continue as guest" >> \o Fault("evaluate"))
                   /\ mustFail' = "continueAsGuest"
    /\ UNCHANGED << browser, items, special, numItems, i, m, q, f, strat, orderPlaced,
                    markerObserved, failedItem, errShot, extractFailed >>
    /\ UNCHANGED aux
    /\ swallowed' = "none"

\* fillGuestInfo: the error rethrown by its catch block.
GuestError(cause) == << "Failed to fill guest info" >> \o cause

FieldMissing(k) == << FieldNames[k], "field not found" >>

\* Whether the outcome of one field leaves fillGuestInfo through its catch:
\*   "ok"       located, clicked and typed
\*   "notfound" page.$ returned null
\*   "fault"    the query, the click or the typing raised
FieldAborts_lenient(o) == o = "fault"

FieldAborts(o) == o # "ok"

\* One field of fillGuestInfo (first name, last name, email, phone).
FillGuestField ==
    /\ pc = "fillGuestInfo"
    /\ f <= Len(FieldNames)
    /\ \E o \in { "ok", "notfound", "fault" } :
         /\ log' = IF o = "ok"
                   THEN log \o << << "locate", f >>, << "fill", f >> >>
                   ELSE Append(log, << "locate", f >>)
         /\ mustFail' = CASE o = "ok"       -> mustFail
                           [] o = "notfound" -> "guestFieldMissing"
                           [] o = "fault"    -> "guestFieldFault"
         /\ IF FieldAborts(o)
            THEN /\ Throw(GuestError(IF o = "notfound"
                                     THEN FieldMissing(f)
                                     ELSE Fault("input")))
                 /\ f' = f
            ELSE /\ Proceed(IF f = Len(FieldNames) THEN "shot05"
                                                   ELSE "fillGuestInfo")
                 /\ f' = f + 1
    /\ UNCHANGED << browser, items, special, numItems, i, m, q, strat, orderPlaced,
                    markerObserved, failedItem, errShot, extractFailed >>
    /\ UNCHANGED aux
    /\ swallowed' = "none"

\* Whether the outcome of submitGuestForm leaves it through its catch:
\*   "notfound" no enabled 'Continue as Guest' button
\*   "fault"    the click or the settle delay raised
\*   "timeout"  neither 'Checkout' nor 'Payment Details' appeared in time
SubmitAborts_noMarker(o) == o \in { "notfound", "fault" }

SubmitAborts(o) == o # "ok"

SubmitCause(o) ==
    CASE o = "notfound" -> << "Submit button not found or disabled" >>
      [] o = "timeout"  -> Fault("waitForFunction")
      [] OTHER          -> Fault("evaluate")

SubmitGuestForm ==
    /\ pc = "submitGuestForm"
    /\ \E o \in { "ok", "prewait", "notfound", "fault", "timeout" } :
         /\ log' = IF o = "prewait" THEN log
                   ELSE Append(log, << "submitGuest", 0 >>)
         /\ mustFail' = IF o \in { "ok", "prewait" } THEN mustFail
                        ELSE "submitGuestForm"
         /\ IF o = "prewait"
            THEN Throw(Fault("waitForTimeout"))
            ELSE IF SubmitAborts(o)
            THEN Throw(<< "Failed to submit guest form" >> \o SubmitCause(o))
            ELSE Proceed("shot06")
    /\ UNCHANGED << browser, items, special, numItems, i, m, q, f, strat, orderPlaced,
                    markerObserved, failedItem, errShot, extractFailed >>
    /\ UNCHANGED aux
    /\ swallowed' = "none"

\* Where addPickupNotes leaves the pipeline: its whole body is inside a try
\* whose catch only logs, and an absent field is only logged.
NotesNext_propagate(o) == IF o = "ok" THEN "verifyPayment" ELSE "errPages"

NotesNext(o) == "verifyPayment"

\* addPickupNotes: field absent, typed, or an exception; all swallowed.
AddPickupNotes ==
    /\ pc = "addPickupNotes"
    /\ log' = Append(log, << "notes", 0 >>)
    /\ \E o \in { "ok", "absent", "fault" } :
         /\ pc' = NotesNext(o)
         /\ swallowed' = IF o = "ok" THEN "none" ELSE "notes"
    /\ UNCHANGED << browser, orderResult, items, special, numItems, i, m, q, f, strat,
                    orderPlaced, markerObserved, mustFail, failedItem,
                    abortLen, errShot, extractFailed >>
    /\ UNCHANGED aux

\* verifyPaymentMethod: already selected, corrected, or an exception; all
\* swallowed.
VerifyPaymentMethod ==
    /\ pc = "verifyPayment"
    /\ log' = Append(log, << "payment", 0 >>)
    /\ \E o \in { "selected", "corrected", "fault" } :
         /\ pc' = "shot07"
         /\ swallowed' = IF o = "fault" THEN "payment" ELSE "none"
    /\ UNCHANGED << browser, orderResult, items, special, numItems, i, m, q, f, strat,
                    orderPlaced, markerObserved, mustFail, failedItem,
                    abortLen, errShot, extractFailed >>
    /\ UNCHANGED aux

\* ------------------------------------------ placeOrderFinal (step 9)
\* The click on 'Place Order'.  When the evaluate raises, the click may or
\* may not have reached the page.
PlaceOrderClick ==
    /\ pc = "placeOrderClick"
    /\ log' = Append(log, << "placeOrder", 0 >>)
    /\ \E o \in { "ok", "notfound", "fault" } :
         CASE o = "ok" ->
                Proceed("waitConfirmation") /\ orderPlaced' = TRUE
           [] o = "notfound" ->
                /\ Throw(<< "Failed to place order",
                            "Place Order button not found" >>)
                /\ orderPlaced' = orderPlaced
           [] o = "fault" ->
                /\ Throw(<< "Failed to place order" >> \o Fault("evaluate"))
                /\ orderPlaced' \in BOOLEAN
    /\ UNCHANGED << browser, items, special, numItems, i, m, q, f, strat,
                    markerObserved, mustFail, failedItem, errShot,
                    extractFailed >>
    /\ UNCHANGED aux
    /\ swallowed' = "none"

\* The bounded wait for 'Order Placed' or 'Order Confirmed'.
WaitConfirmation ==
    /\ pc = "waitConfirmation"
    /\ log' = log
    /\ \E ok \in BOOLEAN :
         IF ok
         THEN Proceed("wait08") /\ markerObserved' = TRUE
         ELSE /\ Throw(<< "Failed to place order" >> \o Fault("waitForFunction"))
              /\ markerObserved' = markerObserved
    /\ UNCHANGED << browser, items, special, numItems, i, m, q, f, strat, orderPlaced,
                    mustFail, failedItem, errShot, extractFailed >>
    /\ UNCHANGED aux
    /\ swallowed' = "none"

\* page.waitForTimeout(3000) after placeOrderFinal.
ConfirmationSettle == Simple("wait08", "waitForTimeout", "shot08")

\* --------------------------------- extractConfirmationDetails (step 10)
\* The confirmation page text, as far as extraction can tell: for each field
\* the set of pattern indices (in list order) that match it.  Any text that
\* matches 'Order Number:' also matches the looser second order pattern, and
\* any text that matches 'Approximately N minutes' also matches the first
\* pickup pattern.
NumOrderPatterns == 4

NumPickupPatterns == 3

NumTotalPatterns == 2

PageTexts ==
    { t \in [ available : { TRUE },
              order     : SUBSET (1..NumOrderPatterns),
              pickup    : SUBSET (1..NumPickupPatterns),
              total     : SUBSET (1..NumTotalPatterns) ] :
        /\ 1 \in t.order => 2 \in t.order
        /\ 2 \in t.pickup => 1 \in t.pickup }

\* page.evaluate raised, or document.body had no text to match against.
Unavailable ==
    [ available |-> FALSE, order |-> {}, pickup |-> {}, total |-> {} ]

\* The pattern loops stop at the first pattern that matches.
FirstMatch(S) == CHOOSE x \in S : \A y \in S : x <= y

\* match[1] of pattern `rule` of the list for `field`; never empty.
Capture(field, rule) == << field, ToString(rule) >>

DefaultOrderNumber == << "ORDER_PLACED_NO_NUMBER" >>

DefaultPickupTime == << "30-40 minutes" >>

\* The body of the try block; nothing is assigned when the text is not
\* available, because the exception is caught at the end of the function.
extractConfirmationDetails(result, text) ==
    IF ~text.available THEN result
    ELSE
      LET num    == IF text.order # {}
                    THEN Capture("order", FirstMatch(text.order))
                    ELSE result.confirmationNumber
          pickup == IF text.pickup # {}
                    THEN Capture("pickup", FirstMatch(text.pickup))
                    ELSE result.estimatedPickupTime
          total  == IF text.total # {}
                    THEN << "$" >> \o Capture("total", FirstMatch(text.total))
                    ELSE result.totalAmount
      IN [ result EXCEPT
             !.confirmationNumber  = IF num = Null THEN DefaultOrderNumber ELSE num,
             !.estimatedPickupTime = IF pickup = Null THEN DefaultPickupTime ELSE pickup,
             !.totalAmount         = total ]

\* Step 10 and the assignment orderResult.success = true that follows it.
Extract_rethrow ==
    /\ pc = "extract"
    /\ log' = Append(log, << "extract", 0 >>)
    /\ \E text \in PageTexts \cup { Unavailable } :
         /\ extractFailed' = ~text.available
         /\ IF text.available
            THEN /\ orderResult' =
                      [ extractConfirmationDetails(orderResult, text)
                          EXCEPT !.success = TRUE ]
                 /\ pc' = "finally"
                 /\ UNCHANGED abortLen
            ELSE Throw(Fault("evaluate"))
    /\ swallowed' = "none"
    /\ UNCHANGED << browser, items, special, numItems, i, m, q, f, strat, orderPlaced,
                    markerObserved, mustFail, failedItem, errShot >>
    /\ UNCHANGED aux

Extract ==
    /\ pc = "extract"
    /\ log' = Append(log, << "extract", 0 >>)
    /\ \E text \in PageTexts \cup { Unavailable } :
         /\ extractFailed' = ~text.available
         /\ swallowed' = IF text.available THEN "none" ELSE "extract"
         /\ orderResult' =
              [ extractConfirmationDetails(orderResult, text)
                  EXCEPT !.success = TRUE ]
    /\ pc' = "finally"
    /\ UNCHANGED << browser, items, special, numItems, i, m, q, f, strat, orderPlaced,
                    markerObserved, mustFail, failedItem, abortLen, errShot >>
    /\ UNCHANGED aux

\* ------------------------------------------- the catch block, continued
\* browser.pages() and the choice of the last page.
ErrPages ==
    /\ pc = "errPages"
    /\ log' = Append(log, << "errPages", 0 >>)
    /\ \E o \in { "page", "nopage", "fault" } :
         /\ pc' = IF o = "page" THEN "shot99" ELSE "finally"
         /\ swallowed' = IF o = "fault" THEN "errPages" ELSE "none"
    /\ strat' = NoStrat
    /\ UNCHANGED << browser, orderResult, items, special, numItems, i, m, q, f,
                    orderPlaced, markerObserved, mustFail, failedItem,
                    abortLen, errShot, extractFailed >>
    /\ UNCHANGED aux

ErrorScreenshot ==
    /\ pc = "shot99"
    /\ log' = Append(log, << "errShot", 0 >>)
    /\ \E ok \in BOOLEAN :
         /\ orderResult' = takeScreenshot(orderResult, "99-error-state", ok)
         /\ errShot' = IF ok THEN "ok" ELSE "failed"
         /\ swallowed' = IF ok THEN "none" ELSE "screenshot"
    /\ pc' = "content"
    /\ UNCHANGED << browser, items, special, numItems, i, m, q, f, strat, orderPlaced,
                    markerObserved, mustFail, failedItem, abortLen,
                    extractFailed >>
    /\ UNCHANGED aux

\* Lengths of the page HTML that page.content() may return.
HtmlLens == { 0, HtmlLimit, HtmlLimit + 1 }

\* The length of html.substring(0, 5000).
Truncate(n) == IF n < HtmlLimit THEN n ELSE HtmlLimit

ErrorContent ==
    /\ pc = "content"
    /\ log' = Append(log, << "content", 0 >>)
    /\ \/ /\ \E n \in HtmlLens :
               orderResult' =
                 [orderResult EXCEPT !.errorPageHTML = Truncate(n)]
          /\ swallowed' = "none"
       \/ /\ orderResult' = orderResult
          /\ swallowed' = "content"
    /\ pc' = "finally"
    /\ UNCHANGED << browser, items, special, numItems, i, m, q, f, strat, orderPlaced,
                    markerObserved, mustFail, failedItem, abortLen, errShot,
                    extractFailed >>
    /\ UNCHANGED aux

\* ----------------------------------------------------- the finally block
\* The guard of the finally block.
NeedsClose_onSuccess(b, result) == b # "undefined" /\ result.success

NeedsClose(b, result) == b # "undefined"

\* browser.close() is awaited inside finally: when it rejects, the rejection
\* replaces the return of placeOrder.
Finally ==
    /\ pc = "finally"
    /\ IF NeedsClose(browser, orderResult)
       THEN /\ log' = Append(log, << "close", 0 >>)
            /\ \E ok \in BOOLEAN :
                 IF ok
                 THEN browser' = "closed" /\ pc' = "returned"
                 ELSE browser' = browser /\ pc' = "thrown"
       ELSE /\ log' = log
            /\ browser' = browser
            /\ pc' = "returned"
    /\ strat' = NoStrat
    /\ UNCHANGED << orderResult, items, special, numItems, i, m, q, f,
                    orderPlaced, markerObserved, mustFail, failedItem,
                    abortLen, errShot, extractFailed >>
    /\ UNCHANGED aux
    /\ swallowed' = "none"

\* ------------------------------------------------------- specification
Next ==
    \/ Launch
    \/ NewPage
    \/ SetupPage
    \/ Goto
    \/ MenuSettle
    \/ StageScreenshot
    \/ FindStrategy1
    \/ FindStrategy2
    \/ FindStrategy3
    \/ ModalWait
    \/ ModalCheck
    \/ ModalDefault
    \/ ApplyModification
    \/ IncrementQuantity
    \/ ClickAddToCart
    \/ ItemSettle
    \/ ClickCheckout
    \/ ContinueAsGuest
    \/ FillGuestField
    \/ SubmitGuestForm
    \/ AddPickupNotes
    \/ VerifyPaymentMethod
    \/ PlaceOrderClick
    \/ WaitConfirmation
    \/ ConfirmationSettle
    \/ Extract
    \/ ErrPages
    \/ ErrorScreenshot
    \/ ErrorContent
    \/ Finally

Spec == Init /\ [][Next]_vars

TypeOK ==
    /\ browser \in { "undefined", "open", "closed" }
    /\ orderResult.success \in BOOLEAN
    /\ i \in 1..(MaxItems + 1)
    /\ swallowed \in { "none", "screenshot", "default", "modification",
                       "increment", "notes", "payment", "extract",
                       "errPages", "content" }

\* --------------------------------------------------------- parseOrderItems
\* A string is a sequence of parts: a part is one character (",", " ", a
\* digit) or a run of letters and digits that the parser never looks inside
\* ("with", "and", "burger", "1lb").
MaxLen == 4

\* The parts of the strings that are enumerated exhaustively.
Alphabet == { ",", " ", "0", "2", "b", "with" }

\* Longer order strings, as a caller would write them.
SampleOrders ==
    { << "2", " ", "Burger", " ", "With", " ", "cheese", " ", "and", " ",
         "bacon", ",", " ", "1lb", " ", "wings", ",", " ", "caesar" >>,
      << "quesadilla", " ", "with", " ", "b", " ", " ", "and", " ", "b",
         " ", "and" >>,
      << "1", "0", " ", " ", "garlic", " ", "bread", " ", "with", " ", "b" >>,
      << " ", ",", ",", " ", "0", " ", "bruschetta", " " >>,
      << "one", " ", "lb", " ", "wing", ",", "wing" >> }

OrderStrings ==
    UNION { [1..n -> Alphabet] : n \in 0..MaxLen } \cup SampleOrders

DigitValue ==
    ("0" :> 0) @@ ("1" :> 1) @@ ("2" :> 2) @@ ("3" :> 3) @@ ("4" :> 4) @@
    ("5" :> 5) @@ ("6" :> 6) @@ ("7" :> 7) @@ ("8" :> 8) @@ ("9" :> 9)

\* \d and \s of the regular expressions.
IsDigit(c) == c \in DOMAIN DigitValue

IsSpace(c) == c = " "

\* String.prototype.toLowerCase.
LowerPart(c) ==
    CASE c = "With" -> "with"
      [] c = "Burger" -> "burger"
      [] OTHER -> c

ToLowerCase(s) == [ k \in 1..Len(s) |-> LowerPart(s[k]) ]

\* String.prototype.indexOf, 1-based; 0 when `pat` does not occur in s.
IndexOf(s, pat) ==
    LET Hits == { k \in 1..(Len(s) - Len(pat) + 1) :
                    SubSeq(s, k, k + Len(pat) - 1) = pat }
    IN  IF Hits = {} THEN 0 ELSE CHOOSE k \in Hits : \A h \in Hits : k <= h

Includes(s, pat) == IndexOf(s, pat) > 0

\* orderItemsString.split(',')
RECURSIVE Split(_)
Split(s) ==
    LET k == IndexOf(s, << "," >>)
    IN  IF k = 0
        THEN << s >>
        ELSE << SubSeq(s, 1, k - 1) >> \o Split(SubSeq(s, k + 1, Len(s)))

\* orderItemsString.split(',').map(item => item.trim())
SplitItems_noTrim(s) == Split(s)

SplitItems(s) == [ k \in 1..Len(Split(s)) |-> Trim(Split(s)[k]) ]

\* The length of the longest prefix of s whose parts all satisfy the class.
RECURSIVE Run(_, _)
Run(s, digit) ==
    IF s # <<>> /\ (IF digit THEN IsDigit(Head(s)) ELSE IsSpace(Head(s)))
    THEN 1 + Run(Tail(s), digit)
    ELSE 0

\* parseInt of a run of digits.
RECURSIVE ParseInt(_)
ParseInt(ds) ==
    IF ds = <<>>
    THEN 0
    ELSE 10 * ParseInt(SubSeq(ds, 1, Len(ds) - 1)) + DigitValue[ds[Len(ds)]]

\* item.match(/^(\d+)\s+(.+)/): the digits, then all the whitespace that
\* follows, then at least one more character (which is the last whitespace
\* character when nothing else is left).
QtyMatch(item) ==
    LET d     == Run(item, TRUE)
        after == SubSeq(item, d + 1, Len(item))
        w     == Run(after, FALSE)
        rest  == SubSeq(after, w + 1, Len(after))
        num   == ParseInt(SubSeq(item, 1, d))
    IN  IF d > 0 /\ w > 0 /\ rest # <<>>
        THEN [ matched |-> TRUE, quantity |-> num, rest |-> rest ]
        ELSE IF d > 0 /\ w > 1
        THEN [ matched |-> TRUE, quantity |-> num, rest |-> << " " >> ]
        ELSE [ matched |-> FALSE, quantity |-> 1, rest |-> item ]

\* The length of the match of /\s+and\s+/ that starts at position p of s, 0
\* when there is none.  (The other alternative of the separator, \s*,\s*,
\* never matches: the segments of split(',') hold no comma.)
SepAt(s, p) ==
    LET w  == Run(SubSeq(s, p, Len(s)), FALSE)
        a  == p + w
        w2 == Run(SubSeq(s, a + 1, Len(s)), FALSE)
    IN  IF w > 0 /\ a <= Len(s) /\ s[a] = "and" /\ w2 > 0
        THEN w + 1 + w2
        ELSE 0

\* modsText.split(/\s+and\s+|\s*,\s*/)
RECURSIVE SplitMods(_)
SplitMods(s) ==
    LET Hits == { p \in 1..Len(s) : SepAt(s, p) > 0 }
        p    == CHOOSE h \in Hits : \A o \in Hits : h <= o
    IN  IF Hits = {}
        THEN << s >>
        ELSE << SubSeq(s, 1, p - 1) >>
                 \o SplitMods(SubSeq(s, p + SepAt(s, p), Len(s)))

\* The parts that contain a given word.
Containing ==
    [ bruschetta |-> { "bruschetta" },
      wing       |-> { "wing", "wings" },
      quesadilla |-> { "quesadilla" },
      burger     |-> { "burger" },
      caesar     |-> { "caesar" } ]

HasWord(s, parts) == \E k \in 1..Len(s) : s[k] \in parts

\* The chain of `includes` tests that normalizes common item names.
Normalize(name) ==
    LET nameLower == ToLowerCase(name)
    IN  CASE HasWord(nameLower, Containing.bruschetta) -> << ItemNames[1] >>
          [] HasWord(nameLower, Containing.wing) ->
                IF \/ HasWord(nameLower, { "1lb" })
                   \/ Includes(nameLower, << "one", " ", "lb" >>)
                THEN << ItemNames[6] >>
                ELSE << ItemNames[7] >>
          [] HasWord(nameLower, Containing.quesadilla) -> << ItemNames[3] >>
          [] HasWord(nameLower, Containing.burger) -> << ItemNames[2] >>
          [] HasWord(nameLower, Containing.caesar) -> << ItemNames[4] >>
          [] Includes(nameLower, << "garlic", " ", "bread" >>) ->
                << ItemNames[5] >>
          [] OTHER -> name

\* The body of items.map(item => { ... }): one ParsedLineItem.
ParseItem(segment) ==
    LET qtyMatch  == QtyMatch(segment)
        item      == qtyMatch.rest
        withIndex == IndexOf(ToLowerCase(item), << " ", "with", " " >>)
        modsText  == Trim(SubSeq(item, withIndex + 3, Len(item)))
        mods      == SplitMods(modsText)
    IN  [ raw           |-> segment,
          name          |-> Normalize(
                              IF withIndex > 0
                              THEN Trim(SubSeq(item, 1, withIndex - 1))
                              ELSE Trim(item)),
          quantity      |-> qtyMatch.quantity,
          modifications |-> IF withIndex > 0
                            THEN [ k \in 1..Len(mods) |-> Trim(mods[k]) ]
                            ELSE << >> ]

parseOrderItems(s) ==
    [ k \in 1..Len(SplitItems(s)) |-> ParseItem(SplitItems(s)[k]) ]

\* A call of parseOrderItems on its own, on any of the order strings.
InitParser ==
    /\ pc = "parse"
    /\ orderItemsString \in OrderStrings
    /\ parsed = << >>
    /\ browser = "undefined"
    /\ orderResult = InitResult
    /\ items = << >>
    /\ special = << >>
    /\ numItems = 0
    /\ i = 1
    /\ m = 1
    /\ q = 1
    /\ f = 1
    /\ strat = NoStrat
    /\ orderPlaced = FALSE
    /\ markerObserved = FALSE
    /\ log = << >>
    /\ mustFail = "none"
    /\ failedItem = 0
    /\ abortLen = -1
    /\ errShot = "none"
    /\ extractFailed = FALSE
    /\ swallowed = "none"
    /\ ConcIdle
    /\ HttpIdle

ParseOrderItems ==
    /\ pc = "parse"
    /\ parsed' = parseOrderItems(orderItemsString)
    /\ pc' = "parsed"
    /\ UNCHANGED << browser, orderResult, items, special, numItems, i, m, q,
                    f, strat, orderPlaced, markerObserved, log, mustFail,
                    failedItem, abortLen, errShot, extractFailed, swallowed,
                    orderItemsString, conc, http >>

NextParser == ParseOrderItems

SpecParser == InitParser /\ [][NextParser]_vars

\* ------------------------------------------- two interleaved invocations
\* Two invocations of placeOrder on one event loop: a step of one runs
\* between two suspension points (awaits) of the other.  The pipeline is
\* followed stage by stage; what is kept is which invocation reads and
\* writes which variable and which object.
ConcStages == 2

\* `let browser` and `let orderResult` are declared inside placeOrder: each
\* invocation has its own.
BrowserSlot(r) == r

ResultSlot_shared(r) == 1

ResultSlot(r) == r

\* The object `let orderResult = { ... }` creates, with the invocations that
\* have written to it.
NewResult(r) ==
    [ success            |-> FALSE,
      confirmationNumber |-> Null,
      error              |-> Null,
      screenshots        |-> 0,
      writers            |-> { r } ]

\* Invocation r reaches `next`.
Goes(r, next, stage) ==
    run' = [run EXCEPT ![r] = [ pc |-> next, stage |-> stage ]]

\* An assignment by invocation r to a field of its orderResult.
Assign(r, field, value) ==
    resultVar' =
        [resultVar EXCEPT ![ResultSlot(r)] =
            [ [ @ EXCEPT ![field] = value ]
                EXCEPT !.writers = @ \cup { r } ] ]

\* The session invocation r's `browser` refers to, with r having operated
\* on it.
Used(r) ==
    [sessions EXCEPT ![browserVar[BrowserSlot(r)]].users = @ \cup { r }]

\* The entry of placeOrder: the declarations of browser and orderResult.
ConcStart(r) ==
    /\ run[r].pc = "idle"
    /\ browserVar' = [browserVar EXCEPT ![BrowserSlot(r)] = 0]
    /\ resultVar' = [resultVar EXCEPT ![ResultSlot(r)] = NewResult(r)]
    /\ Goes(r, "launch", 0)
    /\ UNCHANGED << pipeline, orderItemsString, parsed, http, config, sessions >>

\* browser = await puppeteer.launch(...): a new session, or a rejection.
ConcLaunch(r) ==
    /\ run[r].pc = "launch"
    /\ \/ /\ sessions' = Append(sessions,
                            [ state |-> "open", owner |-> r,
                              users |-> { r }, closers |-> { } ])
          /\ browserVar' =
                [browserVar EXCEPT ![BrowserSlot(r)] = Len(sessions) + 1]
          /\ Goes(r, "stage", 1)
          /\ UNCHANGED resultVar
       \/ /\ Assign(r, "error", Fault("launch"))
          /\ Goes(r, "catch", 0)
          /\ UNCHANGED << sessions, browserVar >>
    /\ UNCHANGED << pipeline, orderItemsString, parsed, http, config >>

\* One stage of the pipeline on the invocation's page: it ends with a
\* snapshot pushed on the result, or it raises and the catch block records
\* the error.
ConcStage(r) ==
    /\ run[r].pc = "stage"
    /\ sessions' = Used(r)
    /\ \/ /\ Assign(r, "screenshots",
                    resultVar[ResultSlot(r)].screenshots + 1)
          /\ IF run[r].stage < ConcStages
             THEN Goes(r, "stage", run[r].stage + 1)
             ELSE Goes(r, "succeed", run[r].stage)
       \/ /\ Assign(r, "error", Fault("stage"))
          /\ Goes(r, "catch", run[r].stage)
    /\ UNCHANGED << pipeline, orderItemsString, parsed, http, config, browserVar >>

\* The end of the try block: the extracted fields and success = true.
ConcSucceed(r) ==
    /\ run[r].pc = "succeed"
    /\ resultVar' =
         [resultVar EXCEPT ![ResultSlot(r)] =
             [ @ EXCEPT !.success = TRUE,
                        !.confirmationNumber = DefaultOrderNumber,
                        !.writers = @ \cup { r } ] ]
    /\ Goes(r, "finally", run[r].stage)
    /\ UNCHANGED << pipeline, orderItemsString, parsed, http, config, browserVar,
                    sessions >>

\* The rest of the catch block: browser.pages() and the error snapshot on
\* the invocation's browser, when it has one.
ConcCatch(r) ==
    /\ run[r].pc = "catch"
    /\ IF browserVar[BrowserSlot(r)] # 0 /\ config.screenshotOnError
       THEN /\ sessions' = Used(r)
            /\ \/ Assign(r, "screenshots",
                         resultVar[ResultSlot(r)].screenshots + 1)
               \/ UNCHANGED resultVar
       ELSE UNCHANGED << sessions, resultVar >>
    /\ Goes(r, "finally", run[r].stage)
    /\ UNCHANGED << pipeline, orderItemsString, parsed, http, config, browserVar >>

\* The finally block: if (browser) await browser.close(), then the return.
ConcFinally(r) ==
    /\ run[r].pc = "finally"
    /\ IF browserVar[BrowserSlot(r)] # 0
       THEN /\ sessions' =
                 [sessions EXCEPT ![browserVar[BrowserSlot(r)]] =
                     [ @ EXCEPT !.state = "closed",
                                !.closers = @ \cup { r } ] ]
            /\ \/ Goes(r, "returned", run[r].stage)
               \/ Goes(r, "thrown", run[r].stage)
       ELSE /\ UNCHANGED sessions
            /\ Goes(r, "returned", run[r].stage)
    /\ UNCHANGED << pipeline, orderItemsString, parsed, http, config, browserVar,
                    resultVar >>

NextConc ==
    \E r \in Runs :
        \/ ConcStart(r)
        \/ ConcLaunch(r)
        \/ ConcStage(r)
        \/ ConcSucceed(r)
        \/ ConcCatch(r)
        \/ ConcFinally(r)

\* Both invocations are still to be made; the rest of the state is idle.
InitConc ==
    /\ ConcIdle
    /\ HttpIdle
    /\ pc = "idle"
    /\ orderItemsString = << >>
    /\ parsed = << >>
    /\ browser = "undefined"
    /\ orderResult = InitResult
    /\ items = << >>
    /\ special = << >>
    /\ numItems = 0
    /\ i = 1
    /\ m = 1
    /\ q = 1
    /\ f = 1
    /\ strat = NoStrat
    /\ orderPlaced = FALSE
    /\ markerObserved = FALSE
    /\ log = << >>
    /\ mustFail = "none"
    /\ failedItem = 0
    /\ abortLen = -1
    /\ errShot = "none"
    /\ extractFailed = FALSE
    /\ swallowed = "none"

SpecConc == InitConc /\ [][NextConc]_vars

\* ------------------------------------------- POST /place-order (server)
\* The values a field of the JSON body takes: absent, null, the empty
\* string, a non-empty string.
JsonNull == [ kind |-> "null", text |-> << >> ]

Str(t) == [ kind |-> "string", text |-> t ]

FieldValues == { Absent, JsonNull, Str(<< >>), Str(<< "x" >>) }

Requests ==
    [ order_items : FieldValues, customer_name : FieldValues,
      customer_phone : FieldValues, pickup_time : FieldValues,
      special_instructions : FieldValues ]

\* JavaScript truthiness of a field: undefined, null and "" are falsy.
Truthy(v) == v.kind = "string" /\ v.text # << >>

\* v || d
OrElse(v, d) == IF Truthy(v) THEN v ELSE d

\* The orderData object built from req.body.
OrderData(body) ==
    [ order_items          |-> body.order_items,
      customer_name        |-> body.customer_name,
      customer_phone       |-> body.customer_phone,
      pickup_time          |-> OrElse(body.pickup_time, Str(<< "ASAP" >>)),
      special_instructions |-> OrElse(body.special_instructions,
                                      Str(<< >>)) ]

\* The condition of the validation.
Invalid_itemsOnly(orderData) == ~Truthy(orderData.order_items)

Invalid(orderData) ==
    \/ ~Truthy(orderData.order_items)
    \/ ~Truthy(orderData.customer_name)
    \/ ~Truthy(orderData.customer_phone)

\* res.status(status).json(body): one response is sent.
Send(status, success) ==
    [ srv EXCEPT !.responses =
        Append(@, [ status |-> status, success |-> success ]) ]

\* The handler from its entry to its first await or return: orderData is
\* built and validated; an invalid one is answered with 400 and the
\* handler returns, a valid one is handed to placeOrder.
PlaceOrderHandler ==
    /\ srv.pc = "idle"
    /\ LET orderData == OrderData(req)
       IN  IF Invalid(orderData)
           THEN srv' = [ Send(400, FALSE) EXCEPT !.pc = "done",
                                                 !.orderData = orderData ]
           ELSE srv' = [ srv EXCEPT !.pc = "placeOrder",
                                    !.orderData = orderData,
                                    !.invoked = @ + 1 ]
    /\ UNCHANGED << pipeline, orderItemsString, parsed, conc, req >>

\* placeOrder resolves with its result, which is sent as the response.
PlaceOrderResolves ==
    /\ srv.pc = "placeOrder"
    /\ \E success \in BOOLEAN :
         srv' = [ Send(200, success) EXCEPT !.pc = "done" ]
    /\ UNCHANGED << pipeline, orderItemsString, parsed, conc, req >>

\* placeOrder rejects: the catch block answers with 500.
PlaceOrderRejects ==
    /\ srv.pc = "placeOrder"
    /\ srv' = [ Send(500, FALSE) EXCEPT !.pc = "done" ]
    /\ UNCHANGED << pipeline, orderItemsString, parsed, conc, req >>

NextServer ==
    \/ PlaceOrderHandler
    \/ PlaceOrderResolves
    \/ PlaceOrderRejects

InitServer ==
    /\ req \in Requests
    /\ srv = [ pc |-> "idle", orderData |-> << >>, invoked |-> 0,
               responses |-> << >> ]
    /\ ConcIdle
    /\ pc = "idle"
    /\ orderItemsString = << >>
    /\ parsed = << >>
    /\ browser = "undefined"
    /\ orderResult = InitResult
    /\ items = << >>
    /\ special = << >>
    /\ numItems = 0
    /\ i = 1
    /\ m = 1
    /\ q = 1
    /\ f = 1
    /\ strat = NoStrat
    /\ orderPlaced = FALSE
    /\ markerObserved = FALSE
    /\ log = << >>
    /\ mustFail = "none"
    /\ failedItem = 0
    /\ abortLen = -1
    /\ errShot = "none"
    /\ extractFailed = FALSE
    /\ swallowed = "none"

SpecServer == InitServer /\ [][NextServer]_vars

\* ------------------------------------------------------------ properties
\* placeOrder has left the try block for the catch block or for finally.
AbortPcs == { "errPages", "shot99", "content", "finally", "returned", "thrown" }

\* The operations of the catch and finally blocks.
CleanupTags == { "errPages", "errShot", "content", "close" }

Attempted(tag) == \E k \in DOMAIN log : log[k][1] = tag

IsItemEvent(e) == e[1] \in { "find", "modal", "add" }

\* The discovery, modal and add-confirmation attempts, in order.
ItemEvents == SelectSeq(log, IsItemEvent)

\* The item whose addition failed, as far as the error messages read it.
FailedItem == [ name |-> ItemNames[failedItem] ]

IsFill(e) == e[1] = "fill"

\* The guest fields typed so far, in the order they were typed.
Filled == SelectSeq(log, IsFill)

Has99 == \E k \in DOMAIN orderResult.screenshots :
             orderResult.screenshots[k] = "99-error-state"

\* C1: placeOrder never throws past the pipeline boundary: whatever the
\* browser primitives do (teardown included), the call ends by returning the
\* OrderResult, never by rejecting.
C1_NeverThrows == pc # "thrown"

\* C2: in every OrderResult returned by placeOrder, error is null exactly
\* when success is true.
C2_ErrorIffFailure ==
    pc = "returned" => (orderResult.success <=> orderResult.error = Null)

C2_Witness ==
    /\ pc = "returned"
    /\ ~orderResult.success
    /\ orderResult.error # Null

\* C3: once a must-succeed step has failed (item discovery, add-to-cart
\* confirmation, a guest-info field, the checkout / continue-as-guest /
\* guest-form-submit transitions with the bounded marker wait), the pipeline
\* has aborted: only catch/finally operations follow the failure, no later
\* stage is attempted, 'Place Order' is never activated and success stays
\* false.
C3_NoPartialOrder ==
    mustFail # "none" =>
        /\ pc \in AbortPcs
        /\ abortLen # -1
        /\ \A k \in (abortLen + 1)..Len(log) : log[k][1] \in CleanupTags
        /\ ~Attempted("placeOrder")
        /\ ~orderPlaced
        /\ ~orderResult.success

C3_Witness ==
    /\ mustFail = "submitGuestForm"
    /\ pc = "returned"
    /\ Attempted("close")

\* C4: when placeOrder returns after an unrecovered error, the browser that
\* was launched for the request has been closed, whatever happened while
\* taking the error snapshot or reading the page content.
C4_ClosedOnError ==
    (pc = "returned" /\ orderResult.error # Null /\ browser # "undefined")
        => browser = "closed"

C4_Witness ==
    /\ pc = "returned"
    /\ orderResult.error # Null
    /\ errShot = "failed"
    /\ browser = "closed"

\* C5: the cart loop attempts the items in parser order, one at a time, and
\* is fail-fast: once adding item k has failed, nothing (discovery, modal
\* handling, add-confirmation) is attempted for items k+1..N, and the error
\* is the cart-addition failure naming item k.
C5_FailFastInOrder ==
    /\ \A k \in DOMAIN ItemEvents :
         LET e == ItemEvents[k]
         IN  /\ e[2] <= numItems
             /\ k = 1 => e = << "find", 1 >>
             /\ k > 1 =>
                  CASE e[1] = "find"  -> ItemEvents[k - 1] = << "add", e[2] - 1 >>
                    [] e[1] = "modal" -> ItemEvents[k - 1] = << "find", e[2] >>
                    [] e[1] = "add"   -> ItemEvents[k - 1] = << "modal", e[2] >>
    /\ failedItem # 0 =>
         /\ pc \in AbortPcs
         /\ i = failedItem
         /\ \A k \in DOMAIN log : IsItemEvent(log[k]) => log[k][2] <= failedItem
         /\ SubSeq(orderResult.error, 1, 3) =
              << "Failed to add", ItemNames[failedItem], "to cart" >>

C5_Witness ==
    /\ failedItem = 1
    /\ numItems > 1
    /\ pc = "returned"

\* C6: whenever the returned result has success = true, confirmationNumber
\* and estimatedPickupTime are non-null: each is the capture of the first
\* matching rule or the fixed default of its field.
C6_FieldsNonNull ==
    (pc = "returned" /\ orderResult.success) =>
        /\ orderResult.confirmationNumber \in
             { Capture("order", r) : r \in 1..NumOrderPatterns }
                 \cup { DefaultOrderNumber }
        /\ orderResult.estimatedPickupTime \in
             { Capture("pickup", r) : r \in 1..NumPickupPatterns }
                 \cup { DefaultPickupTime }

\* C7: once confirmation-detail extraction has been reached (the order was
\* submitted and the marker observed), whatever happens inside it (page text
\* unavailable, no pattern matching) the result has success = true and a
\* null error.
C7_ExtractionNeverOverturns ==
    Attempted("extract") =>
        /\ markerObserved
        /\ orderResult.success
        /\ orderResult.error = Null

C7_Witness ==
    /\ extractFailed
    /\ pc = "returned"
    /\ orderResult.success
    /\ orderResult.error = Null

\* C8 as stated: a strategy that matched an element ends the search, and
\* strategy j+1 is attempted only if strategy j yielded no match.
C8_Original ==
    \A j \in 1..2 :
        /\ strat[j] \in { "clicked", "clickfail" } =>
               \A l \in (j + 1)..3 : strat[l] = "untried"
        /\ strat[j + 1] # "untried" => strat[j] = "nomatch"

\* C8 (amended): the locator short-circuits on success: once a strategy has
\* matched an element and clicked it without raising, no later strategy is
\* attempted; strategy j+1 is attempted only if strategy j yielded no match
\* or raised (a match whose click raises falls through to the next one).
C8_ShortCircuit ==
    \A j \in 1..2 :
        /\ strat[j] = "clicked" => \A l \in (j + 1)..3 : strat[l] = "untried"
        /\ strat[j + 1] # "untried" => strat[j] \in { "nomatch", "clickfail" }

C8_Witness ==
    /\ pc = "modalWait"
    /\ strat[1] = "clicked"
    /\ strat[2] = "untried"
    /\ strat[3] = "untried"

\* C9 as stated: when item discovery fails with all strategies exhausted, the
\* returned result has success = false, the element-not-found failure, and
\* a '99-error-state' snapshot.
C9_Original ==
    (pc = "returned" /\ mustFail = "itemDiscovery") =>
        /\ ~orderResult.success
        /\ orderResult.error =
             AddError(FailedItem, NotFoundError(FailedItem))
        /\ Has99

\* C9 (amended): when item discovery fails with all strategies exhausted, the
\* returned result has success = false and the element-not-found failure,
\* and the error-stage capture has been attempted; '99-error-state' is the
\* last snapshot when that capture succeeded and is absent when the page
\* list or the capture failed.
C9_ErrorSnapshotBestEffort ==
    (pc = "returned" /\ mustFail = "itemDiscovery") =>
        /\ ~orderResult.success
        /\ orderResult.error =
             AddError(FailedItem, NotFoundError(FailedItem))
        /\ Attempted("errPages")
        /\ errShot = "ok" =>
             /\ orderResult.screenshots # <<>>
             /\ orderResult.screenshots[Len(orderResult.screenshots)] =
                  "99-error-state"
        /\ errShot # "ok" => ~Has99

C9_Witness ==
    /\ pc = "returned"
    /\ mustFail = "itemDiscovery"
    /\ Has99

\* C10: the guest fields are typed in the order first name, last name,
\* email, phone; when field k cannot be located, no later field is typed,
\* the guest form is never submitted and the pipeline aborts with the
\* failure naming field k.
C10_GuestFieldsInOrder ==
    /\ \A k \in DOMAIN Filled : Filled[k][2] = k
    /\ mustFail = "guestFieldMissing" =>
         /\ pc \in AbortPcs
         /\ Len(Filled) = f - 1
         /\ ~Attempted("submitGuest")
         /\ orderResult.error = GuestError(FieldMissing(f))

C10_Witness ==
    /\ mustFail = "guestFieldMissing"
    /\ f = 3
    /\ Len(Filled) = 2
    /\ pc = "returned"

\* ------------------------------------------------------------ C11, C12
\* The positions of the commas of an order string.
Commas(s) == { k \in 1..Len(s) : s[k] = "," }

\* The n-th comma-separated segment of s: the parts with n - 1 commas before
\* them.
SegmentOf(s, n) ==
    LET In == { k \in 1..Len(s) :
                  /\ s[k] # ","
                  /\ Cardinality({ c \in Commas(s) : c < k }) = n - 1 }
    IN  IF In = {}
        THEN << >>
        ELSE SubSeq(s, CHOOSE k \in In : \A o \in In : k <= o,
                       CHOOSE k \in In : \A o \in In : k >= o)

\* r is seg without its leading and trailing whitespace.
IsTrimOf(r, seg) ==
    /\ r = << >> \/ (r[1] # " " /\ r[Len(r)] # " ")
    /\ \E a \in 0..Len(seg) :
         /\ a + Len(r) <= Len(seg)
         /\ SubSeq(seg, a + 1, a + Len(r)) = r
         /\ \A k \in 1..Len(seg) :
              (k <= a \/ k > a + Len(r)) => seg[k] = " "

\* C11: for an order string with N comma-separated segments parseOrderItems
\* returns exactly N line items, and the raw text of the i-th item is the
\* trimmed i-th segment.
C11_OnePerSegment ==
    pc = "parsed" =>
        /\ Len(parsed) = Cardinality(Commas(orderItemsString)) + 1
        /\ \A n \in 1..Len(parsed) :
             IsTrimOf(parsed[n].raw, SegmentOf(orderItemsString, n))

\* Three segments were parsed, one of them had whitespace to trim, and one
\* had a leading quantity, so that its raw text is not its name.
C11_Witness ==
    /\ pc = "parsed"
    /\ Len(parsed) >= 3
    /\ \E n \in 1..Len(parsed) :
         /\ parsed[n].raw # SegmentOf(orderItemsString, n)
         /\ parsed[n].raw # << >>
    /\ \E n \in 1..Len(parsed) :
         /\ parsed[n].quantity # 1
         /\ parsed[n].raw # parsed[n].name

\* C12: every line item parseOrderItems returns has a quantity that is an
\* integer >= 1 and a sequence of modifications, empty when its segment has
\* no ' with '.
C12_QuantityAtLeastOne ==
    pc = "parsed" =>
        \A n \in 1..Len(parsed) :
            /\ parsed[n].quantity \in Nat
            /\ parsed[n].quantity >= 1
            /\ DOMAIN parsed[n].modifications
                 = 1..Len(parsed[n].modifications)
            /\ ~Includes(ToLowerCase(parsed[n].raw), << " ", "with", " " >>)
                 => parsed[n].modifications = << >>

\* ----------------------------------------------------------------- C13
\* C13: when two placeOrder invocations interleave, each uses its own
\* browser session and its own OrderResult: only the invocation that owns a
\* result has written to it, only the invocation that launched a session
\* has operated on it or closed it, and CONFIG is never changed.
C13_RunsIndependent ==
    /\ config = CONFIG
    /\ \A r \in Runs :
         run[r].pc # "idle" => resultVar[ResultSlot(r)].writers = { r }
    /\ \A h \in DOMAIN sessions :
         /\ sessions[h].users = { sessions[h].owner }
         /\ sessions[h].closers \subseteq { sessions[h].owner }
    /\ \A r \in Runs :
         browserVar[BrowserSlot(r)] # 0 =>
            sessions[browserVar[BrowserSlot(r)]].owner = r

\* The two invocations overlapped: the second launched its browser first
\* and is in the middle of its stages with the session open, while the
\* first has returned a successful result and closed its own session.
C13_Witness ==
    /\ run[1].pc = "returned"
    /\ resultVar[ResultSlot(1)].success
    /\ sessions[browserVar[BrowserSlot(1)]].state = "closed"
    /\ browserVar[BrowserSlot(1)] = 2
    /\ run[2].pc = "stage"
    /\ run[2].stage = ConcStages
    /\ sessions[browserVar[BrowserSlot(2)]].state = "open"

\* ----------------------------------------------------------------- C14
\* Every pending browser primitive eventually resolves or rejects: a step
\* that can be taken is eventually taken.
FairSpec == Spec /\ WF_vars(Next)

\* placeOrder has returned its result or rejected.
Exits == { "returned", "thrown" }

\* C14: every run of placeOrder eventually reaches the pipeline exit, the
\* success flag is set to true by at most one step (the end of the try
\* block, entered at most once) and is never changed afterwards, and the
\* result is not touched after the exit.
C14_TerminatesOnce ==
    /\ <>(pc \in Exits)
    /\ [][ /\ orderResult.success => orderResult'.success
           /\ orderResult'.success # orderResult.success
                => pc = "extract" /\ ~Attempted("extract")
           /\ pc \in Exits => orderResult' = orderResult ]_vars

\* The run went through the item loop once per item, set success at the
\* end of the try block and returned.
C14_Witness ==
    /\ pc = "returned"
    /\ orderResult.success
    /\ numItems = MaxItems
    /\ i = MaxItems + 1
    /\ Attempted("extract")

\* ----------------------------------------------------------------- C15
\* The place of a logged action in the pipeline: 100 times its stage
\* (1 MenuLoaded, 2 CartFilled, 3 CheckoutInitiated, 4 GuestSelected,
\* 5 GuestInfoFilled, 6 GuestFormSubmitted, 7 NotesAdded, 8 PaymentVerified,
\* 9 order submission), then the item or field it is about and its phase;
\* 0 for what belongs to no stage.
StagePos(e) ==
    CASE e[1] = "goto"        -> 100
      [] e[1] = "find"        -> 200 + 10 * e[2] + 1
      [] e[1] = "modal"       -> 200 + 10 * e[2] + 2
      [] e[1] = "add"         -> 200 + 10 * e[2] + 3
      [] e[1] = "checkout"    -> 300
      [] e[1] = "guest"       -> 400
      [] e[1] = "locate"      -> 500 + 10 * e[2] + 1
      [] e[1] = "fill"        -> 500 + 10 * e[2] + 2
      [] e[1] = "submitGuest" -> 600
      [] e[1] = "notes"       -> 700
      [] e[1] = "payment"     -> 800
      [] e[1] = "placeOrder"  -> 900
      [] OTHER                -> 0

IsStageEvent(e) == StagePos(e) > 0

StageEvents == SelectSeq(log, IsStageEvent)

\* The actions of a request that goes through every stage.
AllStages ==
    { 100, 300, 400, 600, 800, 900 }
      \cup { 200 + 10 * k + p : k \in 1..numItems, p \in 1..3 }
      \cup { 500 + 10 * k + p : k \in 1..Len(FieldNames), p \in 1..2 }
      \cup (IF HasInstructions(special) THEN { 700 } ELSE { })

\* C15: the stages are entered in pipeline order only, no action of a stage
\* is attempted twice and no stage is revisited; the notes stage is attempted
\* only when special_instructions is non-blank; and success = true implies
\* that every non-optional stage was gone through once, in order, and that
\* the confirmation marker was observed.
C15_LinearStages ==
    LET ev  == StageEvents
        pos == [ k \in DOMAIN ev |-> StagePos(ev[k]) ]
    IN  /\ \A k \in 2..Len(pos) : pos[k - 1] < pos[k]
        /\ Attempted("notes") => HasInstructions(special)
        /\ orderResult.success =>
              /\ { pos[k] : k \in DOMAIN pos } = AllStages
              /\ markerObserved
              /\ abortLen = -1

\* A successful request with MaxItems items and instructions: every stage,
\* the notes stage included, was gone through.
C15_Witness ==
    /\ pc = "returned"
    /\ orderResult.success
    /\ numItems = MaxItems
    /\ HasInstructions(special)
    /\ Attempted("notes")
    /\ Len(StageEvents) = 15 + 3 * MaxItems

\* ----------------------------------------------------------------- C16
\* The action `tag` was attempted for item k.
AttemptedFor(tag, k) == \E j \in DOMAIN log : log[j] = << tag, k >>

\* C16: within the flow of one item only the discovery and the final
\* add-confirmation can fail the item: once the customization surface of an
\* item has been inspected, whatever fails in the inspection, the default
\* selection, the modifications or the increments is swallowed, and the
\* add-confirmation is attempted for that item before the request can abort.
C16_ModalNeverFailsItem ==
    \A k \in 1..numItems :
        (AttemptedFor("modal", k) /\ pc \in AbortPcs)
            => AttemptedFor("add", k)

\* ----------------------------------------------------------------- C17
\* C17: for an item of quantity n > 1 exactly n - 1 increments are made
\* when none fails (the loop counter q reaches n); a failing increment ends
\* the loop at once, without failing the item, and the add-confirmation is
\* what comes next; for a quantity of 1 (or less) no increment is made.
C17_QuantityLoop ==
    /\ pc = "increment" =>
         /\ items[i].quantity > 1
         /\ q < items[i].quantity
         /\ swallowed # "increment"
    /\ swallowed = "increment" =>
         /\ pc = "addToCart"
         /\ failedItem = 0
         /\ abortLen = -1
    /\ pc = "addToCart" =>
         /\ items[i].quantity <= 1 => q = 1
         /\ (items[i].quantity > 1 /\ swallowed # "increment") =>
              q = items[i].quantity

\* The first increment of an item of quantity MaxQty failed: the loop was
\* left with MaxQty - 2 increments never attempted.
C17_Witness ==
    /\ pc = "addToCart"
    /\ items[i].quantity = MaxQty
    /\ q = 1
    /\ swallowed = "increment"

\* ----------------------------------------------------------------- C18
\* C18: the best-effort steps never abort the pipeline: whatever happens in
\* the entry of the special instructions (the notes field being absent
\* included), in the verification of the payment method or in the capture
\* of a stage snapshot, the step leads to the stage that follows it, with no
\* error recorded, as it does when it succeeds.
C18_BestEffortNeverAborts ==
    [][ /\ \A s \in DOMAIN ShotTable :
             pc = ShotTable[s].at =>
                /\ pc' = ShotTable[s].next
                /\ orderResult'.error = orderResult.error
                /\ orderResult'.success = orderResult.success
                /\ abortLen' = abortLen
        /\ pc = "addPickupNotes" =>
             /\ pc' = "verifyPayment"
             /\ UNCHANGED << orderResult, abortLen >>
        /\ pc = "verifyPayment" =>
             /\ pc' = "shot07"
             /\ UNCHANGED << orderResult, abortLen >> ]_vars

\* The payment verification has just failed, after the notes were attempted
\* and every stage snapshot so far failed, and the pipeline is at the next
\* stage with no error recorded.
C18_Witness ==
    /\ swallowed = "payment"
    /\ pc = "shot07"
    /\ Attempted("notes")
    /\ orderResult.screenshots = << >>
    /\ orderResult.error = Null

\* ----------------------------------------------------------------- C19
\* The position of the first event `tag` of the log; 0 when there is none.
FirstAt(tag) ==
    IF Attempted(tag)
    THEN CHOOSE k \in DOMAIN log :
            /\ log[k][1] = tag
            /\ \A j \in 1..(k - 1) : log[j][1] # tag
    ELSE 0

\* C19 as stated: on every path that ends with success = false, the launch
\* failure included, an error-stage snapshot is attempted before teardown.
C19_Original ==
    (pc \in Exits /\ ~orderResult.success) => Attempted("errShot")

\* C19 as the code has it: on every path that ends with success = false
\* after the browser was launched, the catch block asks the browser for its
\* last page before teardown; when it gets one, it attempts the error-stage
\* snapshot and then reads the page content, of which at most 5000
\* characters are recorded when the read succeeds.  When the launch itself
\* failed there is no browser, and nothing is captured.
C19_CaptureWhenLaunched ==
    (pc \in Exits /\ ~orderResult.success) =>
        /\ browser # "undefined" =>
             /\ Attempted("errPages")
             /\ Attempted("close")
             /\ FirstAt("errPages") < FirstAt("close")
        /\ browser = "undefined" =>
             /\ ~Attempted("errPages")
             /\ ~Attempted("errShot")
             /\ orderResult.errorPageHTML = -1
        /\ Attempted("errShot") <=> Attempted("content")
        /\ Attempted("errShot") =>
             /\ FirstAt("errPages") < FirstAt("errShot")
             /\ FirstAt("errShot") < FirstAt("content")
             /\ FirstAt("content") < FirstAt("close")
        /\ orderResult.errorPageHTML # -1 =>
             /\ Attempted("content")
             /\ orderResult.errorPageHTML <= HtmlLimit

\* A request aborted after the launch: the snapshot was attempted and the
\* content, longer than the limit, was recorded truncated.
C19_Witness ==
    /\ pc = "returned"
    /\ ~orderResult.success
    /\ Attempted("errShot")
    /\ orderResult.errorPageHTML = HtmlLimit

\* ----------------------------------------------------------------- C20
\* C20: once 'Place Order' has been activated and the confirmation marker
\* observed, nothing that follows (the settle delay, the confirmation
\* snapshot, the extraction) makes the request end with success = false.
C20_PlacedMeansSuccess ==
    (pc \in Exits /\ orderPlaced /\ markerObserved) => orderResult.success

\* ----------------------------------------------------------------- C21
\* The place of a snapshot label in the pipeline: the stage snapshots in the
\* order of their calls, the error snapshot after them all.
ShotRank(name) ==
    IF name = "99-error-state"
    THEN Len(ShotTable) + 1
    ELSE CHOOSE s \in DOMAIN ShotTable : ShotTable[s].name = name

\* s is t or the start of t.
IsPrefix(s, t) == Len(s) <= Len(t) /\ SubSeq(t, 1, Len(s)) = s

\* C21: the snapshot list only grows at its end (no record is removed or
\* rewritten), its labels are in strictly increasing pipeline order, each at
\* most once, and '99-error-state' comes at most once, last, and only in a
\* result whose success is false.
C21_SnapshotsAppendOnly ==
    /\ [](LET shots == orderResult.screenshots
          IN  /\ \A k \in 2..Len(shots) :
                   ShotRank(shots[k - 1]) < ShotRank(shots[k])
              /\ Has99 => ~orderResult.success)
    /\ [][IsPrefix(orderResult.screenshots, orderResult'.screenshots)]_vars

\* A request that aborted after the confirmation marker: seven stage
\* snapshots and then the error snapshot.
C21_Witness ==
    /\ pc = "returned"
    /\ Len(orderResult.screenshots) = 8
    /\ orderResult.screenshots[8] = "99-error-state"
    /\ ~orderResult.success

\* ----------------------------------------------------------------- C22
\* The number of close events of the log.
Closes == Len(SelectSeq(log, LAMBDA e : e[1] = "close"))

\* C22: on every exit path, success or failure, a browser that was launched
\* has been closed, by exactly one close, after which no page or browser
\* operation was performed; when the launch itself failed no close was
\* attempted.
C22_BrowserLifecycle ==
    pc \in Exits =>
        /\ browser # "undefined" =>
             /\ browser = "closed"
             /\ Closes = 1
             /\ log[Len(log)][1] = "close"
        /\ browser = "undefined" => Closes = 0

\* ----------------------------------------------------------------- C23
\* A required field of the request is missing from the body.
MissingRequired ==
    \/ req.order_items = Absent
    \/ req.customer_name = Absent
    \/ req.customer_phone = Absent

\* C23: the HTTP wrapper validates before automating.  A /place-order
\* request missing any of order_items, customer_name or customer_phone is
\* answered with status 400 and success = false, and placeOrder is never
\* invoked for it (the launch of the browser is the first step of
\* placeOrder, so none is launched); no request is ever answered
\* more than once, nothing is sent while placeOrder is running, and a
\* handled request has been answered exactly once.
C23_ValidatesBeforeAutomating ==
    /\ Len(srv.responses) <= 1
    /\ srv.pc = "placeOrder" => srv.responses = << >>
    /\ srv.pc = "done" => Len(srv.responses) = 1
    /\ MissingRequired =>
         /\ srv.invoked = 0
         /\ srv.pc # "placeOrder"
         /\ srv.pc = "done" =>
              srv.responses = << [ status |-> 400, success |-> FALSE ] >>

\* A request with its items and its name but no phone number has been
\* answered.
C23_Witness ==
    /\ srv.pc = "done"
    /\ Truthy(req.order_items)
    /\ Truthy(req.customer_name)
    /\ req.customer_phone = Absent
    /\ srv.invoked = 0
    /\ srv.responses = << [ status |-> 400, success |-> FALSE ] >>

====
